---- MODULE Spec2Model ----
(***************************************************************************)
(* Model of the Obsidian -> Hugo content transformation pipeline of        *)
(* src/main.ts (HugoSyncPlugin).  Strings are sequences of one-character    *)
(* strings, so that trimming, splitting, searching and the regular          *)
(* expressions of the source are computed character by character.           *)
(***************************************************************************)
EXTENDS Integers, Sequences, FiniteSets, TLC

VARIABLES
    \* processContentWithTagsAndFiltering (src/main.ts 265-334)
    filteredHeaders,      \* settings.filteredHeaders
    lines,                \* content.split('\n')
    i,                    \* loop index (0-based, as in the source)
    tagSection,
    processedContent,
    currentHeaderLevel,
    skipContent,
    tags,
    pass,                 \* 0 idle, 1 first run, 2 run over the first run's output
    firstContent,         \* processedContent of the first run
    firstTags,            \* tags after the first run
    \* convertToHugoFormat (src/main.ts 180-263, 336-413)
    fileName,             \* file.name
    content,              \* the document text handed to convertToHugoFormat
    date,                 \* new Date().toISOString()
    frontMatter,          \* adjustedYaml / the block of hugoFrontMatter
    hugoContent,          \* the returned document text
    converted,            \* has convertToHugoFormat returned
    \* processImages / copyImageToHugo (src/main.ts 416-483)
    io,                   \* what the vault and the file system answer, per embed
    matches,              \* [...content.matchAll(imageRegex)], the names
    m,                    \* number of matches handled
    resultContent,
    imageCount,
    errors,
    hugoFiles,            \* the files written under the Hugo directory
    \* syncSelectedToHugo / syncFileToHugo (src/main.ts 62-178)
    selectedFiles,        \* getSelectedFiles(), with what the host answers per file
    f,                    \* number of files handled
    attempts,             \* the files syncFileToHugo was called with, in order
    successCount,
    failCount,
    totalImageCount,
    errorMessages,
    notice,               \* the Notice shown at the end, <<>> before
    \* findImageFile / findPastedImage (src/main.ts 486-612)
    vault,                \* app.vault.getFiles(), in enumeration order
    lookups               \* what findImageFile returned, per embed handled

filterVars == <<filteredHeaders, lines, i, tagSection, processedContent,
                currentHeaderLevel, skipContent, tags, pass, firstContent, firstTags>>

convertVars == <<fileName, content, date, frontMatter, hugoContent, converted>>

imageVars == <<io, matches, m, resultContent, imageCount, errors, hugoFiles>>

batchVars == <<selectedFiles, f, attempts, successCount, failCount, totalImageCount,
               errorMessages, notice>>

resolveVars == <<vault, lookups>>

vars == <<filterVars, convertVars, imageVars, batchVars, resolveVars>>

-----------------------------------------------------------------------------
(* String primitives of JavaScript, on sequences of characters.             *)

\* String.prototype.trim: the characters it strips
WhiteSpace == {" ", "\t", "\n"}

RECURSIVE TrimStart(_)
TrimStart(s) ==
    IF s # <<>> /\ Head(s) \in WhiteSpace THEN TrimStart(Tail(s)) ELSE s

RECURSIVE TrimEnd(_)
TrimEnd(s) ==
    IF s # <<>> /\ s[Len(s)] \in WhiteSpace
    THEN TrimEnd(SubSeq(s, 1, Len(s) - 1)) ELSE s

Trim(s) == TrimEnd(TrimStart(s))

StartsWith(s, p) == Len(p) <= Len(s) /\ SubSeq(s, 1, Len(p)) = p

EndsWith(s, p) == Len(p) <= Len(s) /\ SubSeq(s, Len(s) - Len(p) + 1, Len(s)) = p

\* s.indexOf(p, from): 0-based position of the first occurrence at or after
\* from, -1 when there is none
RECURSIVE IndexOf(_, _, _)
IndexOf(s, p, from) ==
    IF from + Len(p) > Len(s) THEN -1
    ELSE IF SubSeq(s, from + 1, from + Len(p)) = p THEN from
    ELSE IndexOf(s, p, from + 1)

Includes(s, p) == IndexOf(s, p, 0) >= 0

\* s.substring(a, b) with 0 <= a <= b, 0-based, b excluded
Substring(s, a, b) ==
    SubSeq(s, a + 1, IF b > Len(s) THEN Len(s) ELSE b)

SubstringFrom(s, a) == SubSeq(s, a + 1, Len(s))

\* s.replace(p, r) with a string pattern: the first occurrence only
ReplaceFirst(s, p, r) ==
    LET k == IndexOf(s, p, 0)
    IN  IF k < 0 THEN s
        ELSE SubSeq(s, 1, k) \o r \o SubSeq(s, k + Len(p) + 1, Len(s))

\* s.split(c) on a one-character separator
RECURSIVE SplitFrom(_, _, _)
SplitFrom(s, c, cur) ==
    IF s = <<>> THEN <<cur>>
    ELSE IF Head(s) = c THEN <<cur>> \o SplitFrom(Tail(s), c, <<>>)
    ELSE SplitFrom(Tail(s), c, Append(cur, Head(s)))

Split(s, c) == SplitFrom(s, c, <<>>)

\* a.join(c)
RECURSIVE Join(_, _)
Join(a, c) ==
    IF a = <<>> THEN <<>>
    ELSE IF Len(a) = 1 THEN a[1]
    ELSE a[1] \o <<c>> \o Join(Tail(a), c)

\* a.includes(x) on an array
ArrayIncludes(a, x) == \E k \in 1..Len(a) : a[k] = x

-----------------------------------------------------------------------------
(* processContentWithTagsAndFiltering                                       *)

\* the characters of symbolOnlyRegex's character class
SymbolChars ==
    {"!", "@", "#", "$", "%", "^", "&", "*", "(", ")", "_", "+", "-", "=",
     "[", "]", "{", "}", ";", "'", ":", "\"", "\\", "|", ",", ".", "<", ">",
     "/", "?"}

\* symbolOnlyRegex.test(t): /^[...]+$/
symbolOnlyRegex(t) == t # <<>> /\ \A k \in 1..Len(t) : t[k] \in SymbolChars

\* headerMatch[1].length for /^(#+)\s*(.*)/
RECURSIVE HeaderLevel(_)
HeaderLevel(t) ==
    IF t # <<>> /\ Head(t) = "#" THEN 1 + HeaderLevel(Tail(t)) ELSE 0

\* headerMatch[2] for /^(#+)\s*(.*)/
HeaderContent(t) == TrimStart(SubstringFrom(t, HeaderLevel(t)))

\* end (1-based, inclusive) of the run [^\s#]+ that starts at position k
RECURSIVE TokenEnd(_, _)
TokenEnd(s, k) ==
    IF k + 1 <= Len(s) /\ s[k + 1] \notin WhiteSpace /\ s[k + 1] # "#"
    THEN TokenEnd(s, k + 1) ELSE k

\* does /#[^\s#]+/ match at position k (1-based)
TagAt(s, k) ==
    /\ s[k] = "#"
    /\ k + 1 <= Len(s)
    /\ s[k + 1] \notin WhiteSpace
    /\ s[k + 1] # "#"

\* trimmedLine.match(/#[^\s#]+/g): the matches, left to right
RECURSIVE StandaloneTags(_, _)
StandaloneTags(s, k) ==
    IF k > Len(s) THEN <<>>
    ELSE IF TagAt(s, k)
         THEN <<SubSeq(s, k, TokenEnd(s, k + 1))>> \o StandaloneTags(s, TokenEnd(s, k + 1) + 1)
         ELSE StandaloneTags(s, k + 1)

\* the mutant of RemoveTags: replace without the g flag removes one match
RECURSIVE RemoveFirstTag(_, _)
RemoveFirstTag(s, k) ==
    IF k > Len(s) THEN <<>>
    ELSE IF TagAt(s, k)
         THEN SubSeq(s, TokenEnd(s, k + 1) + 1, Len(s))
         ELSE <<s[k]>> \o RemoveFirstTag(s, k + 1)

\* line.replace(/#[^\s#]+/g, '')
RECURSIVE RemoveTags(_, _)
RemoveTags(s, k) ==
    IF k > Len(s) THEN <<>>
    ELSE IF TagAt(s, k)
         THEN RemoveTags(s, TokenEnd(s, k + 1) + 1)
         ELSE <<s[k]>> \o RemoveTags(s, k + 1)

\* tags.push(t) guarded by !tags.includes(t)
PushNew(ts, t) == IF ArrayIncludes(ts, t) THEN ts ELSE Append(ts, t)

\* the forEach over standaloneTagsMatch (316-321)
RECURSIVE PushInline(_, _)
PushInline(ts, ms) ==
    IF ms = <<>> THEN ts
    ELSE LET cleanTag == Tail(Head(ms))
         IN  PushInline(IF symbolOnlyRegex(cleanTag) THEN ts ELSE PushNew(ts, cleanTag),
                        Tail(ms))

\* if (headerLevel <= currentHeaderLevel) skipContent = false   (284-286)
ClearsSkip(headerLevel, level) == headerLevel <= level

TagsOpener == <<"t", "a", "g", "s", ":">>

\* one iteration of the for loop (275-330) on the loop's local state
FilterStep(st, line, blacklist) ==
    LET trimmedLine == Trim(line)
        isHeader    == StartsWith(trimmedLine, <<"#">>)
        headerLevel == HeaderLevel(trimmedLine)
        headerContent == HeaderContent(trimmedLine)
        skip1 == IF isHeader /\ ClearsSkip(headerLevel, st.currentHeaderLevel)
                 THEN FALSE ELSE st.skipContent
        level1 == IF isHeader THEN headerLevel ELSE st.currentHeaderLevel
        st1 == [st EXCEPT !.skipContent = skip1, !.currentHeaderLevel = level1]
        standaloneTagsMatch == StandaloneTags(trimmedLine, 1)
        cleanedLine == Trim(RemoveTags(line, 1))
    IN  IF isHeader /\ ArrayIncludes(blacklist, headerContent)
        THEN [st EXCEPT !.skipContent = TRUE, !.currentHeaderLevel = headerLevel]
        ELSE IF trimmedLine = TagsOpener
        THEN [st1 EXCEPT !.tagSection = TRUE]
        ELSE IF st1.tagSection
        THEN IF StartsWith(trimmedLine, <<"-">>)
             THEN LET tag == Trim(Tail(trimmedLine))
                  IN  IF tag # <<>> /\ ~symbolOnlyRegex(tag)
                      THEN [st1 EXCEPT !.tags = PushNew(@, tag)]
                      ELSE st1
             ELSE [st1 EXCEPT !.tagSection = FALSE]
        ELSE IF ~st1.skipContent
        THEN IF standaloneTagsMatch # <<>>
             THEN [st1 EXCEPT !.tags = PushInline(@, standaloneTagsMatch),
                              !.processedContent =
                                  IF cleanedLine # <<>> THEN Append(@, cleanedLine) ELSE @]
             ELSE [st1 EXCEPT !.processedContent = Append(@, line)]
        ELSE st1

\* the loop's local state at its start (267-270)
FilterStart(ts) ==
    [tagSection |-> FALSE, processedContent |-> <<>>,
     currentHeaderLevel |-> 0, skipContent |-> FALSE, tags |-> ts]

RECURSIVE FilterRun(_, _, _)
FilterRun(st, ls, blacklist) ==
    IF ls = <<>> THEN st
    ELSE FilterRun(FilterStep(st, Head(ls), blacklist), Tail(ls), blacklist)

\* processContentWithTagsAndFiltering(content, tags): the returned lines and
\* the tags array it has pushed to
processContentWithTagsAndFiltering(text, ts, blacklist) ==
    LET st == FilterRun(FilterStart(ts), Split(text, "\n"), blacklist)
    IN  [processedContent |-> st.processedContent, tags |-> st.tags]

-----------------------------------------------------------------------------
(* convertToHugoFormat, adjustExistingYaml, createNewYaml, adjustYamlFields, *)
(* mergeTagsLine                                                            *)

Delimiter == <<"-", "-", "-">>
TitleKey == <<"t", "i", "t", "l", "e", ":">>
DateKey == <<"d", "a", "t", "e", ":">>
DraftKey == <<"d", "r", "a", "f", "t", ":">>
DraftFalse == DraftKey \o <<" ", "f", "a", "l", "s", "e">>
MdExtension == <<".", "m", "d">>

\* a.join(sep) with a separator string
RECURSIVE JoinStr(_, _)
JoinStr(a, sep) ==
    IF a = <<>> THEN <<>>
    ELSE IF Len(a) = 1 THEN a[1]
    ELSE a[1] \o sep \o JoinStr(Tail(a), sep)

\* s.replace(/['"]/g, '')
RECURSIVE RemoveQuotes(_)
RemoveQuotes(s) ==
    IF s = <<>> THEN <<>>
    ELSE IF Head(s) \in {"'", "\""} THEN RemoveQuotes(Tail(s))
    ELSE <<Head(s)>> \o RemoveQuotes(Tail(s))

\* fileName.replace('.md', '')
TitleOf(name) == ReplaceFirst(name, MdExtension, <<>>)

\* `title: "${title}"`
TitleLine(title) == TitleKey \o <<" ", "\"">> \o title \o <<"\"">>

\* `date: ${date}`
DateLine(d) == DateKey \o <<" ">> \o d

\* `tags: [${tags.map(tag => `"${tag}"`).join(', ')}]`
RenderTags(ts) ==
    TagsOpener \o <<" ", "[">>
        \o JoinStr([k \in 1..Len(ts) |-> <<"\"">> \o ts[k] \o <<"\"">>], <<",", " ">>)
        \o <<"]">>

\* the entries of a comma-separated list, trimmed, without quotes, pushed
\* when non-empty and new (222-228, 401-407)
RECURSIVE PushEntries(_, _)
PushEntries(ts, entries) ==
    IF entries = <<>> THEN ts
    ELSE LET cleanTag == RemoveQuotes(Trim(Head(entries)))
         IN  PushEntries(IF cleanTag # <<>> THEN PushNew(ts, cleanTag) ELSE ts,
                         Tail(entries))

\* the loop of adjustExistingYaml over the lines of the existing block
\* (206-234); st = [tags, inTagsSection]
RECURSIVE ExistingTags(_, _)
ExistingTags(st, ls) ==
    IF ls = <<>> THEN st.tags
    ELSE
      LET trimmedLine == Trim(Head(ls))
          next ==
            IF trimmedLine = TagsOpener
            THEN [st EXCEPT !.inTagsSection = TRUE]
            ELSE IF st.inTagsSection
            THEN IF StartsWith(trimmedLine, <<"-">>)
                 THEN LET tag == RemoveQuotes(Trim(Tail(trimmedLine)))
                      IN  IF tag # <<>> THEN [st EXCEPT !.tags = PushNew(@, tag)] ELSE st
                 ELSE IF StartsWith(trimmedLine, <<"[">>) /\ EndsWith(trimmedLine, <<"]">>)
                 THEN [st EXCEPT !.tags =
                          PushEntries(@, Split(Substring(trimmedLine, 1, Len(trimmedLine) - 1), ","))]
                 ELSE IF trimmedLine # <<>>
                 THEN [st EXCEPT !.inTagsSection = FALSE]
                 ELSE st
            ELSE st
      IN  ExistingTags(next, Tail(ls))

\* [...new Set([...existingTags, ...newTags])]
RECURSIVE Union(_, _)
Union(a, b) == IF b = <<>> THEN a ELSE Union(PushNew(a, Head(b)), Tail(b))

TagsBracket == TagsOpener \o <<" ", "[">>

\* mergeTagsLine(existingTagsLine, newTags)
mergeTagsLine(existingTagsLine, newTags) ==
    LET trimmedLine == Trim(existingTagsLine)
        existingTags ==
            IF StartsWith(trimmedLine, TagsBracket) /\ EndsWith(trimmedLine, <<"]">>)
            THEN PushEntries(<<>>, Split(Substring(trimmedLine, 7, Len(trimmedLine) - 1), ","))
            ELSE <<>>
    IN  IF trimmedLine = TagsOpener
        THEN RenderTags(newTags)
        ELSE RenderTags(Union(existingTags, newTags))

\* the mutant of KeepField: the line of a managed field found in the block is
\* dropped, so that the field is emitted only as the newly computed line
DropField(line) == <<>>

\* result.push(line) for a title:, date: or draft: line of the block (357-363)
KeepField(line) == <<line>>

\* i = lines.length - 1 (368): the index the loop continues from, after i++
AfterTagsLine(ls, k) == Len(ls) + 1

\* the loop of adjustYamlFields (345-376) from line k (1-based) on;
\* st = [result, hasTitle, hasDate, hasDraft, hasTags]
RECURSIVE YamlLoop(_, _, _, _)
YamlLoop(st, ls, k, ts) ==
    IF k > Len(ls) THEN st
    ELSE
      LET line == ls[k]
          trimmedLine == Trim(line)
      IN  IF trimmedLine = Delimiter /\ k = 1
          THEN YamlLoop([st EXCEPT !.result = Append(@, line)], ls, k + 1, ts)
          ELSE IF StartsWith(trimmedLine, TitleKey)
          THEN YamlLoop([st EXCEPT !.hasTitle = TRUE, !.result = @ \o KeepField(line)],
                        ls, k + 1, ts)
          ELSE IF StartsWith(trimmedLine, DateKey)
          THEN YamlLoop([st EXCEPT !.hasDate = TRUE, !.result = @ \o KeepField(line)],
                        ls, k + 1, ts)
          ELSE IF StartsWith(trimmedLine, DraftKey)
          THEN YamlLoop([st EXCEPT !.hasDraft = TRUE, !.result = @ \o KeepField(line)],
                        ls, k + 1, ts)
          ELSE IF StartsWith(trimmedLine, TagsOpener)
          THEN YamlLoop([st EXCEPT !.hasTags = TRUE,
                                   !.result = Append(@, mergeTagsLine(line, ts))],
                        ls, AfterTagsLine(ls, k), ts)
          ELSE IF StartsWith(trimmedLine, <<"-">>)
          THEN IF st.hasTags
               THEN YamlLoop(st, ls, k + 1, ts)
               ELSE YamlLoop([st EXCEPT !.result = Append(@, line)], ls, k + 1, ts)
          ELSE YamlLoop([st EXCEPT !.result = Append(@, line)], ls, k + 1, ts)

\* adjustYamlFields(existingYaml, title, date, tags)
adjustYamlFields(existingYaml, title, d, ts) ==
    LET st == YamlLoop([result |-> <<>>, hasTitle |-> FALSE, hasDate |-> FALSE,
                        hasDraft |-> FALSE, hasTags |-> FALSE],
                       Split(existingYaml, "\n"), 1, ts)
        result == st.result
            \o (IF st.hasTitle THEN <<>> ELSE <<TitleLine(title)>>)
            \o (IF st.hasDate THEN <<>> ELSE <<DateLine(d)>>)
            \o (IF st.hasDraft THEN <<>> ELSE <<DraftFalse>>)
            \o (IF st.hasTags THEN <<>> ELSE <<RenderTags(ts)>>)
            \o <<Delimiter>>
    IN  Join(result, "\n")

\* adjustExistingYaml(content, fileName): the block, the tags and the text
adjustExistingYaml(doc, name, d, blacklist) ==
    LET title == TitleOf(name)
        firstYamlEnd == IndexOf(doc, Delimiter, 3)
        existingYaml == Substring(doc, 0, firstYamlEnd)
        contentAfterYaml == Trim(SubstringFrom(doc, firstYamlEnd))
        tags0 == ExistingTags([tags |-> <<>>, inTagsSection |-> FALSE],
                              Split(existingYaml, "\n"))
        processed == processContentWithTagsAndFiltering(contentAfterYaml, tags0, blacklist)
        adjustedYaml == adjustYamlFields(existingYaml, title, d, processed.tags)
    IN  [frontMatter |-> adjustedYaml,
         tags |-> processed.tags,
         text |-> adjustedYaml \o <<"\n", "\n">>
                    \o Trim(Join(processed.processedContent, "\n"))]

\* the mutant of NewFrontMatter: the draft line is left out
NewFrontMatterNoDraft(title, d, ts) ==
    Join(<<Delimiter, TitleLine(title), DateLine(d), RenderTags(ts), Delimiter>>, "\n")

\* the template literal of createNewYaml up to its closing delimiter (253-258)
NewFrontMatter(title, d, ts) ==
    Join(<<Delimiter, TitleLine(title), DateLine(d), DraftFalse, RenderTags(ts),
           Delimiter>>, "\n")

\* createNewYaml(content, fileName)
createNewYaml(doc, name, d, blacklist) ==
    LET title == TitleOf(name)
        processed == processContentWithTagsAndFiltering(doc, <<>>, blacklist)
        block == NewFrontMatter(title, d, processed.tags)
    IN  [frontMatter |-> block,
         tags |-> processed.tags,
         text |-> block \o <<"\n", "\n">>
                    \o Trim(Join(processed.processedContent, "\n"))]

\* hasExistingYaml (182-183)
hasExistingYaml(doc) == StartsWith(doc, Delimiter) /\ IndexOf(doc, Delimiter, 3) > 3

\* convertToHugoFormat(content, fileName)
convertToHugoFormat(doc, name, d, blacklist) ==
    IF hasExistingYaml(doc)
    THEN adjustExistingYaml(doc, name, d, blacklist)
    ELSE createNewYaml(doc, name, d, blacklist)

IdleFilter ==
    /\ lines = <<>>
    /\ i = 0
    /\ tagSection = FALSE
    /\ processedContent = <<>>
    /\ currentHeaderLevel = 0
    /\ skipContent = FALSE
    /\ pass = 0
    /\ firstContent = <<>>
    /\ firstTags = <<>>

IdleConvert ==
    /\ fileName = <<>>
    /\ content = <<>>
    /\ date = <<>>
    /\ frontMatter = <<>>
    /\ hugoContent = <<>>
    /\ converted = FALSE

\* the letters and digits of ASCII
AlphaNum ==
    {"a", "b", "c", "d", "e", "f", "g", "h", "i", "j", "k", "l", "m", "n", "o",
     "p", "q", "r", "s", "t", "u", "v", "w", "x", "y", "z",
     "A", "B", "C", "D", "E", "F", "G", "H", "I", "J", "K", "L", "M", "N", "O",
     "P", "Q", "R", "S", "T", "U", "V", "W", "X", "Y", "Z",
     "0", "1", "2", "3", "4", "5", "6", "7", "8", "9"}

-----------------------------------------------------------------------------
(* processImages, copyImageToHugo                                           *)

\* DEFAULT_SETTINGS (16-24)
hugoPath == <<>>
contentPath == <<"c", "o", "n", "t", "e", "n", "t", "/", "p", "o", "s", "t", "s">>
staticPath == <<"s", "t", "a", "t", "i", "c">>
imageSubPath == <<"i", "m", "a", "g", "e", "s">>

EmbedOpen == <<"!", "[", "[">>
EmbedClose == <<"]", "]">>

\* end (1-based, inclusive) of the run [^\]]+ that starts at position k
RECURSIVE NameEnd(_, _)
NameEnd(s, k) ==
    IF k + 1 <= Len(s) /\ s[k + 1] # "]" THEN NameEnd(s, k + 1) ELSE k

\* does /!\[\[([^\]]+)\]\]/ match at position k (1-based)
EmbedAt(s, k) ==
    /\ k + 3 <= Len(s)
    /\ SubSeq(s, k, k + 2) = EmbedOpen
    /\ s[k + 3] # "]"
    /\ NameEnd(s, k + 3) + 2 <= Len(s)
    /\ SubSeq(s, NameEnd(s, k + 3) + 1, NameEnd(s, k + 3) + 2) = EmbedClose

\* [...content.matchAll(imageRegex)]: match[1] of every match, left to right
RECURSIVE MatchAll(_, _)
MatchAll(s, k) ==
    IF k > Len(s) THEN <<>>
    ELSE IF EmbedAt(s, k)
         THEN <<SubSeq(s, k + 3, NameEnd(s, k + 3))>> \o MatchAll(s, NameEnd(s, k + 3) + 3)
         ELSE MatchAll(s, k + 1)

\* match[0] of a match whose match[1] is imageName
FullMatch(imageName) == EmbedOpen \o imageName \o EmbedClose

\* the characters encodeURIComponent leaves as they are
Unreserved == AlphaNum \cup {"-", "_", ".", "!", "~", "*", "'", "(", ")"}

\* the escapes of encodeURIComponent for the other ASCII characters
Escape(c) ==
    CASE c = " " -> <<"%", "2", "0">>
      [] c = "\"" -> <<"%", "2", "2">>
      [] c = "#" -> <<"%", "2", "3">>
      [] c = "$" -> <<"%", "2", "4">>
      [] c = "%" -> <<"%", "2", "5">>
      [] c = "&" -> <<"%", "2", "6">>
      [] c = "+" -> <<"%", "2", "B">>
      [] c = "," -> <<"%", "2", "C">>
      [] c = "/" -> <<"%", "2", "F">>
      [] c = ":" -> <<"%", "3", "A">>
      [] c = ";" -> <<"%", "3", "B">>
      [] c = "<" -> <<"%", "3", "C">>
      [] c = "=" -> <<"%", "3", "D">>
      [] c = ">" -> <<"%", "3", "E">>
      [] c = "?" -> <<"%", "3", "F">>
      [] c = "@" -> <<"%", "4", "0">>
      [] c = "[" -> <<"%", "5", "B">>
      [] c = "\\" -> <<"%", "5", "C">>
      [] c = "]" -> <<"%", "5", "D">>
      [] c = "^" -> <<"%", "5", "E">>
      [] c = "{" -> <<"%", "7", "B">>
      [] c = "|" -> <<"%", "7", "C">>
      [] c = "}" -> <<"%", "7", "D">>

RECURSIVE encodeURIComponent(_)
encodeURIComponent(s) ==
    IF s = <<>> THEN <<>>
    ELSE (IF Head(s) \in Unreserved THEN <<Head(s)>> ELSE Escape(Head(s)))
            \o encodeURIComponent(Tail(s))

\* path.join of non-empty segments
RECURSIVE PathJoin(_)
PathJoin(segs) ==
    IF segs = <<>> THEN <<>>
    ELSE IF Head(segs) = <<>> THEN PathJoin(Tail(segs))
    ELSE IF PathJoin(Tail(segs)) = <<>> THEN Head(segs)
    ELSE Head(segs) \o <<"/">> \o PathJoin(Tail(segs))

NotFoundMessage ==
    <<"I", "m", "a", "g", "e", " ", "f", "i", "l", "e", " ", "n", "o", "t", " ",
      "f", "o", "u", "n", "d", ":", " ">>

\* copyImageToHugo(imageName, markdownFileName) under the answers `answer` of
\* the vault and the file system: the returned path and the file copied, or
\* the message of the error thrown
copyImageToHugo(imageName, markdownFileName, answer) ==
    LET articleName == ReplaceFirst(markdownFileName, MdExtension, <<>>)
        hugoImageDir == PathJoin(<<hugoPath, staticPath, imageSubPath, articleName>>)
    IN  IF answer.mkdir # <<>>
        THEN [thrown |-> TRUE, message |-> answer.mkdir]
        ELSE IF answer.found = <<>>
        THEN [thrown |-> TRUE, message |-> NotFoundMessage \o imageName]
        ELSE IF answer.copy # <<>>
        THEN [thrown |-> TRUE, message |-> answer.copy]
        ELSE [thrown |-> FALSE,
              target |-> PathJoin(<<hugoImageDir, answer.found>>),
              path |-> <<".", ".", "/", ".", ".", "/">> \o imageSubPath \o <<"/">>
                          \o articleName \o <<"/">> \o encodeURIComponent(answer.found)]

\* `![${imageName}](${newImagePath})`
ImageLink(imageName, newImagePath) ==
    <<"!", "[">> \o imageName \o <<"]", "(">> \o newImagePath \o <<")">>

\* imageCount++ in the try block (432)
CountImage(n, thrown) == IF thrown THEN n ELSE n + 1

\* one iteration of the for loop of processImages (424-439);
\* st = [resultContent, imageCount, errors, copied]
ImageStep(st, imageName, markdownFileName, answer) ==
    LET r == copyImageToHugo(imageName, markdownFileName, answer)
    IN  IF r.thrown
        THEN [st EXCEPT !.errors = Append(@, imageName \o <<":", " ">> \o r.message),
                        !.imageCount = CountImage(@, TRUE)]
        ELSE [st EXCEPT !.resultContent =
                            ReplaceFirst(@, FullMatch(imageName), ImageLink(imageName, r.path)),
                        !.imageCount = CountImage(@, FALSE),
                        !.copied = @ \cup {r.target}]

RECURSIVE ImageLoop(_, _, _, _)
ImageLoop(st, names, markdownFileName, answers) ==
    IF names = <<>> THEN st
    ELSE ImageLoop(ImageStep(st, Head(names), markdownFileName, Head(answers)),
                   Tail(names), markdownFileName, Tail(answers))

\* processImages(content, fileName) under the answers of the environment
processImages(text, markdownFileName, answers) ==
    ImageLoop([resultContent |-> text, imageCount |-> 0, errors |-> <<>>, copied |-> {}],
              MatchAll(text, 1), markdownFileName, answers)

IdleImages ==
    /\ io = <<>>
    /\ matches = <<>>
    /\ m = 0
    /\ resultContent = <<>>
    /\ imageCount = 0
    /\ errors = <<>>
    /\ hugoFiles = {}

-----------------------------------------------------------------------------
(* syncSelectedToHugo, syncFileToHugo                                       *)

\* the two characters of the word the source puts between the file name and
\* an image error (82), each one element
ImageWord == <<"U+56FE", "U+7247">>

\* syncFileToHugo(file) under the answers of the host for that file
syncFileToHugo(file, d, blacklist) ==
    IF file.read # <<>>
    THEN [thrown |-> TRUE, message |-> file.read, copied |-> {}]
    ELSE
      LET imageProcessResult == processImages(file.content, file.name, file.io)
          hugoText == convertToHugoFormat(imageProcessResult.resultContent, file.name,
                                          d, blacklist).text
          hugoFilePath == PathJoin(<<hugoPath, contentPath, file.name>>)
      IN  IF file.write # <<>>
          THEN [thrown |-> TRUE, message |-> file.write,
                copied |-> imageProcessResult.copied]
          ELSE [thrown |-> FALSE,
                copied |-> imageProcessResult.copied,
                written |-> [path |-> hugoFilePath, data |-> hugoText],
                imageCount |-> imageProcessResult.imageCount,
                imageErrors |-> imageProcessResult.errors]

\* `${file.name} (<ImageWord>): ${err}` for every image error (82)
ImageErrorMessages(name, errs) ==
    [k \in 1..Len(errs) |-> name \o <<" ", "(">> \o ImageWord \o <<")", ":", " ">> \o errs[k]]

\* the mutant of AfterFailure: the loop stops at the first file that fails
StopAfterFailure(k, n) == n

\* the loop goes on with the next file after the catch block (84-89)
AfterFailure(k, n) == k + 1

IdleBatch ==
    /\ selectedFiles = <<>>
    /\ f = 0
    /\ attempts = <<>>
    /\ successCount = 0
    /\ failCount = 0
    /\ totalImageCount = 0
    /\ errorMessages = <<>>
    /\ notice = [kind |-> "none"]

IdleResolve ==
    /\ vault = <<>>
    /\ lookups = <<>>

-----------------------------------------------------------------------------
(* Inputs of the filter: bodies of at most MaxLines lines of LinePool.      *)

MaxLines == 3

HeaderP == <<"P">>

LinePool ==
    { <<"#", " ", "P">>,                          \* # P    blacklisted, level 1
      <<"#", "#", " ", "P">>,                     \* ## P   blacklisted, level 2
      <<"#", " ", "A">>,                          \* # A
      <<"#", "#", " ", "A">>,                     \* ## A
      <<"#", "#", "#", " ", "A">>,                \* ### A
      TagsOpener,                                 \* tags:
      <<"-", " ", "b">>,                          \* - b
      <<"-", " ", ".">>,                          \* - .    symbol-only item
      <<"s", " ", "#", "a">>,                     \* s #a
      <<"#", "a", " ", "#", ".">>,                \* #a #.
      <<" ", "s">>,                               \*  s     indented text
      TagsOpener \o <<" ", "#", "a">>,            \* tags: #a
      <<"#", " ", "P", " ", "#", "a">> }          \* # P #a

RECURSIVE SeqsUpTo(_, _)
SeqsUpTo(S, n) ==
    IF n = 0 THEN {<<>>}
    ELSE LET shorter == SeqsUpTo(S, n - 1)
         IN  shorter \cup {Append(q, x) : q \in {r \in shorter : Len(r) = n - 1}, x \in S}

Bodies == SeqsUpTo(LinePool, MaxLines) \ {<<>>}

Blacklists == {<<>>, <<HeaderP>>}

InitFilter ==
    /\ filteredHeaders \in Blacklists
    /\ \E body \in Bodies : lines = Split(Join(body, "\n"), "\n")
    /\ i = 0
    /\ tagSection = FALSE
    /\ processedContent = <<>>
    /\ currentHeaderLevel = 0
    /\ skipContent = FALSE
    /\ tags = <<>>
    /\ pass = 1
    /\ firstContent = <<>>
    /\ firstTags = <<>>
    /\ IdleConvert
    /\ IdleImages
    /\ IdleBatch
    /\ IdleResolve

\* the loop's local state as a record
LoopState ==
    [tagSection |-> tagSection, processedContent |-> processedContent,
     currentHeaderLevel |-> currentHeaderLevel, skipContent |-> skipContent,
     tags |-> tags]

\* one iteration of the for loop of processContentWithTagsAndFiltering
ProcessLine ==
    /\ pass \in {1, 2}
    /\ i < Len(lines)
    /\ LET st == FilterStep(LoopState, lines[i + 1], filteredHeaders)
       IN  /\ tagSection' = st.tagSection
           /\ processedContent' = st.processedContent
           /\ currentHeaderLevel' = st.currentHeaderLevel
           /\ skipContent' = st.skipContent
           /\ tags' = st.tags
    /\ i' = i + 1
    /\ UNCHANGED <<filteredHeaders, lines, pass, firstContent, firstTags>>
    /\ UNCHANGED <<convertVars, imageVars, batchVars>>
    /\ UNCHANGED resolveVars

\* the function is called again on its own output, joined by newlines, with
\* the tag array of the first call
RunAgain ==
    /\ pass = 1
    /\ i = Len(lines)
    /\ firstContent' = processedContent
    /\ firstTags' = tags
    /\ lines' = Split(Join(processedContent, "\n"), "\n")
    /\ i' = 0
    /\ tagSection' = FALSE
    /\ processedContent' = <<>>
    /\ currentHeaderLevel' = 0
    /\ skipContent' = FALSE
    /\ pass' = 2
    /\ UNCHANGED <<filteredHeaders, tags>>
    /\ UNCHANGED <<convertVars, imageVars, batchVars>>
    /\ UNCHANGED resolveVars

NextFilter == ProcessLine \/ RunAgain

SpecFilter == InitFilter /\ [][NextFilter]_vars

-----------------------------------------------------------------------------
(* Claims about processContentWithTagsAndFiltering (SpecFilter)             *)

IsHeaderLine(line) == StartsWith(Trim(line), <<"#">>)

\* line k (1-based) of ls stands under a blacklisted header: some earlier line j
\* is a header of level L whose text is in the blacklist, and no line after j up
\* to and including k is a header of level <= L
UnderBlacklistedHeader(ls, k, blacklist) ==
    \E j \in 1..(k - 1) :
        /\ IsHeaderLine(ls[j])
        /\ ArrayIncludes(blacklist, HeaderContent(Trim(ls[j])))
        /\ \A n \in (j + 1)..k :
              ~(IsHeaderLine(ls[n])
                /\ HeaderLevel(Trim(ls[n])) <= HeaderLevel(Trim(ls[j])))

\* C1: once a blacklisted header is seen at level L, no following line before
\* the next header of level <= L is added to the output: the iteration that
\* handles such a line leaves processedContent as it was.
C1_SkipUntilShallowerHeader ==
    [][(pass = 1 /\ i < Len(lines)
        /\ UnderBlacklistedHeader(lines, i + 1, filteredHeaders))
       => processedContent' = processedContent]_vars

\* C2: while the skipping flag is true (before and after the line is handled)
\* no line adds a tag to the tag set, be it an inline #token or a `- item`
\* of a tags: list.
C2_NoTagsWhileSkipping ==
    [][(pass = 1 /\ i < Len(lines) /\ skipContent /\ skipContent')
       => tags' = tags]_vars

FilterDone == i = Len(lines)

\* C8 as stated: a second run over the joined output of the first run yields
\* the same text and adds no tag, for every body and blacklist.
C8_SecondPassIsNoOp ==
    (pass = 2 /\ FilterDone)
        => /\ Join(processedContent, "\n") = Join(firstContent, "\n")
           /\ tags = firstTags

\* the first run left no tags: opener and no blacklisted header in its output
NoResidualMarker(out, blacklist) ==
    \A k \in 1..Len(out) :
        /\ Trim(out[k]) # TagsOpener
        /\ ~(IsHeaderLine(out[k])
             /\ ArrayIncludes(blacklist, HeaderContent(Trim(out[k]))))

\* C8 amended: when the output of the first run holds no line that trims to
\* `tags:` and no header whose text is blacklisted, the second run yields the
\* same text and adds no tag.
C8_SecondPassIsNoOpWithoutResidue ==
    (pass = 2 /\ FilterDone /\ NoResidualMarker(firstContent, filteredHeaders))
        => /\ Join(processedContent, "\n") = Join(firstContent, "\n")
           /\ tags = firstTags

\* a finished second run over an output free of residue, after a first run that
\* extracted tags, emitted lines and filtered under a blacklist
C8_Witness ==
    /\ pass = 2
    /\ FilterDone
    /\ NoResidualMarker(firstContent, filteredHeaders)
    /\ filteredHeaders # <<>>
    /\ Len(firstTags) >= 1
    /\ Len(firstContent) >= 2

-----------------------------------------------------------------------------
(* Inputs of the converter: documents with a front-matter block of at most   *)
(* MaxFmLines lines of FmPool followed by at most MaxChunks chunks of        *)
(* ChunkPool, and documents made of the chunks alone.                        *)

MaxFmLines == 3
MaxChunks == 1

OldTitleLine == TitleKey \o <<" ", "\"", "O", "\"">>

FmPool ==
    { OldTitleLine,                                         \* title: "O"
      DateKey \o <<" ", "X">>,                              \* date: X
      DraftKey \o <<" ", "t", "r", "u", "e">>,              \* draft: true
      TagsOpener,                                           \* tags:
      TagsBracket \o <<"b", ",", " ", ".", "]">>,           \* tags: [b, .]
      <<"-", " ", "c">>,                                    \* - c
      <<"-", " ", ".", ".">>,                               \* - ..
      <<"k", ":", " ", "v">> }                              \* k: v

ChunkPool ==
    { <<"s">>,                                              \* s
      <<"s", " ", "#", "a", " ", "#", ".">>,                \* s #a #.
      TagsOpener \o <<"\n", "-", " ", "b", "\n", "-", " ", ".">>,   \* tags: / - b / - .
      <<"#", " ", "P", "\n", "x">>,                         \* # P / x
      Delimiter }                                           \* ---

FileNames == { <<"n">> \o MdExtension, <<"O">> \o MdExtension }

Dates == { <<"2", "0", "2", "6">> }

Documents ==
    {Join(<<Delimiter>> \o fm \o <<Delimiter>> \o b, "\n") :
        fm \in SeqsUpTo(FmPool, MaxFmLines), b \in SeqsUpTo(ChunkPool, MaxChunks)}
    \cup {Join(b, "\n") : b \in SeqsUpTo(ChunkPool, MaxChunks)}

InitConvert ==
    /\ filteredHeaders = <<HeaderP>>
    /\ tags = <<>>
    /\ IdleFilter
    /\ fileName \in FileNames
    /\ content \in Documents
    /\ date \in Dates
    /\ frontMatter = <<>>
    /\ hugoContent = <<>>
    /\ converted = FALSE
    /\ IdleImages
    /\ IdleBatch
    /\ IdleResolve

\* convertToHugoFormat(content, file.name) is called and returns
Convert ==
    /\ ~converted
    /\ LET r == convertToHugoFormat(content, fileName, date, filteredHeaders)
       IN  /\ frontMatter' = r.frontMatter
           /\ tags' = r.tags
           /\ hugoContent' = r.text
    /\ converted' = TRUE
    /\ UNCHANGED <<fileName, content, date, filteredHeaders>>
    /\ UNCHANGED <<lines, i, tagSection, processedContent, currentHeaderLevel,
                   skipContent, pass, firstContent, firstTags>>
    /\ UNCHANGED <<imageVars, batchVars>>
    /\ UNCHANGED resolveVars

NextConvert == Convert

SpecConvert == InitConvert /\ [][NextConvert]_vars

-----------------------------------------------------------------------------
(* Claims about the conversion of a document (SpecConvert)                  *)

\* the lines of the existing front-matter block, up to its closing delimiter
BlockLines == Split(Substring(content, 0, IndexOf(content, Delimiter, 3)), "\n")

\* the lines of the front-matter block that was emitted
EmittedLines == Split(frontMatter, "\n")

HasKey(line, key) == StartsWith(Trim(line), key)

\* line k of ls is a `- item` of a tags: field: only `-` lines stand between
\* it and a tags: line before it
TagListItem(ls, k) ==
    /\ HasKey(ls[k], <<"-">>)
    /\ \E j \in 1..(k - 1) :
          /\ HasKey(ls[j], TagsOpener)
          /\ \A n \in (j + 1)..k : HasKey(ls[n], <<"-">>)

Unmanaged(ls, k) ==
    /\ Trim(ls[k]) # <<>>
    /\ \A key \in {TitleKey, DateKey, DraftKey, TagsOpener} : ~HasKey(ls[k], key)
    /\ ~TagListItem(ls, k)

RECURSIVE UnmanagedLines(_, _)
UnmanagedLines(ls, k) ==
    IF k > Len(ls) THEN <<>>
    ELSE (IF Unmanaged(ls, k) THEN <<ls[k]>> ELSE <<>>) \o UnmanagedLines(ls, k + 1)

\* a is b with some elements left out
RECURSIVE IsSubsequence(_, _)
IsSubsequence(a, b) ==
    IF a = <<>> THEN TRUE
    ELSE IF b = <<>> THEN FALSE
    ELSE IF Head(a) = Head(b) THEN IsSubsequence(Tail(a), Tail(b))
    ELSE IsSubsequence(a, Tail(b))

\* C3: every non-blank line of an existing front-matter block that is not a
\* title:/date:/draft:/tags: field and not a list item of the tags field is in
\* the emitted block, verbatim and in its original relative order, wherever it
\* stands relative to the tags: line.
C3_UnmanagedLinesSurvive ==
    (converted /\ hasExistingYaml(content))
        => IsSubsequence(UnmanagedLines(BlockLines, 1), EmittedLines)

\* the newly computed line of a managed field
NewFieldLine(key) ==
    IF key = TitleKey THEN TitleKey \o <<" ", "\"">> \o TitleOf(fileName) \o <<"\"">>
    ELSE IF key = DateKey THEN DateKey \o <<" ">> \o date
    ELSE DraftFalse

RECURSIVE LinesWithKey(_, _)
LinesWithKey(ls, key) ==
    IF ls = <<>> THEN <<>>
    ELSE (IF HasKey(Head(ls), key) THEN <<Head(ls)>> ELSE <<>>)
            \o LinesWithKey(Tail(ls), key)

\* C4 as stated: a title:, date: or draft: line found in the existing block is
\* replaced by the newly computed value, so that the emitted block holds the
\* newly computed line of that field and nothing else for it.
C4_ManagedFieldsReplaced ==
    (converted /\ hasExistingYaml(content))
        => \A key \in {TitleKey, DateKey, DraftKey} :
              LinesWithKey(BlockLines, key) # <<>>
                  => LinesWithKey(EmittedLines, key) = <<NewFieldLine(key)>>

\* the lines of the block that stand before its first tags: line (all of them
\* when it has none)
RECURSIVE BeforeTagsLine(_)
BeforeTagsLine(ls) ==
    IF ls = <<>> \/ HasKey(Head(ls), TagsOpener) THEN <<>>
    ELSE <<Head(ls)>> \o BeforeTagsLine(Tail(ls))

\* C4 amended: the title:, date: and draft: lines that stand before the tags:
\* line of the existing block are kept verbatim and in order, and nothing else
\* is emitted for that field; only a field with no such line gets the newly
\* computed line.
C4_ManagedFieldsKept ==
    (converted /\ hasExistingYaml(content))
        => \A key \in {TitleKey, DateKey, DraftKey} :
              LET found == LinesWithKey(BeforeTagsLine(BlockLines), key)
              IN  LinesWithKey(EmittedLines, key) =
                      IF found # <<>> THEN found ELSE <<NewFieldLine(key)>>

\* an existing title that differs from the new title is merged, in a block
\* that also lacks a date: line
C4_Witness ==
    /\ converted
    /\ hasExistingYaml(content)
    /\ LinesWithKey(BeforeTagsLine(BlockLines), TitleKey) = <<OldTitleLine>>
    /\ OldTitleLine # NewFieldLine(TitleKey)
    /\ LinesWithKey(BlockLines, DateKey) = <<>>
    /\ LinesWithKey(EmittedLines, DateKey) # <<>>

\* a tag made of punctuation and symbols only
NoLetterOrDigit(t) == t # <<>> /\ \A k \in 1..Len(t) : t[k] \notin AlphaNum

\* the entries of the emitted `tags: [...]` line
EmittedTags ==
    LET tl == LinesWithKey(EmittedLines, TagsBracket)
    IN  IF tl = <<>> THEN <<>>
        ELSE LET inner == Substring(tl[1], 7, Len(tl[1]) - 1)
                 entries == Split(inner, ",")
             IN  IF inner = <<>> THEN <<>>
                 ELSE [k \in 1..Len(entries) |-> RemoveQuotes(Trim(entries[k]))]

\* C9: after a conversion neither the tag set nor the emitted tags: line holds
\* a tag without any letter or digit, whatever the tag's origin.
C9_NoSymbolOnlyTag ==
    converted
        => /\ \A k \in 1..Len(tags) : ~NoLetterOrDigit(tags[k])
           /\ \A k \in 1..Len(EmittedTags) : ~NoLetterOrDigit(EmittedTags[k])

OutputLines == Split(hugoContent, "\n")

\* "t1", "t2", ... : the tags double-quoted and separated by a comma and a space
RECURSIVE QuotedList(_)
QuotedList(ts) ==
    IF ts = <<>> THEN <<>>
    ELSE <<"\"">> \o Head(ts) \o <<"\"">>
            \o (IF Len(ts) > 1 THEN <<",", " ">> ELSE <<>>) \o QuotedList(Tail(ts))

\* C10: for a document without existing front matter the output is a `---`
\* line, one title: line, one date: line, `draft: false`, one tags: line with
\* the tags as a bracketed, comma-separated, double-quoted list (`tags: []`
\* when there is none), a closing `---` line, a blank line and the trimmed
\* processed body.
C10_NewFrontMatterShape ==
    (converted /\ ~hasExistingYaml(content))
        => /\ Len(OutputLines) >= 8
           /\ OutputLines[1] = Delimiter
           /\ OutputLines[2] = TitleKey \o <<" ", "\"">> \o TitleOf(fileName) \o <<"\"">>
           /\ OutputLines[3] = DateKey \o <<" ">> \o date
           /\ OutputLines[4] = DraftKey \o <<" ", "f", "a", "l", "s", "e">>
           /\ OutputLines[5] = TagsOpener \o <<" ", "[">> \o QuotedList(tags) \o <<"]">>
           /\ (tags = <<>> => OutputLines[5] = TagsOpener \o <<" ", "[", "]">>)
           /\ OutputLines[6] = Delimiter
           /\ OutputLines[7] = <<>>
           /\ LET body == Join(SubSeq(OutputLines, 8, Len(OutputLines)), "\n")
              IN  /\ body = Trim(body)
                  /\ body = Trim(Join(processContentWithTagsAndFiltering(
                                          content, <<>>, filteredHeaders).processedContent,
                                      "\n"))

\* a document without front matter whose body yields a tag and a body line
C10_Witness ==
    /\ converted
    /\ ~hasExistingYaml(content)
    /\ tags # <<>>
    /\ Len(OutputLines) >= 8
    /\ OutputLines[8] # <<>>

-----------------------------------------------------------------------------
(* Inputs of processImages: texts of at most MaxFragments fragments of      *)
(* FragmentPool, and one answer of the environment per embed.               *)

MaxFragments == 3

ImageA == <<"a", ".", "p", "n", "g">>
ImageBC == <<"b", " ", "c", ".", "p", "n", "g">>

FragmentPool ==
    { FullMatch(<<"a">>),                  \* ![[a]]
      FullMatch(<<"b", " ", "c">>),        \* ![[b c]]
      <<"x", " ">>,                        \* x
      EmbedOpen,                           \* ![[
      EmbedClose }                         \* ]]

RECURSIVE Concat(_)
Concat(a) == IF a = <<>> THEN <<>> ELSE Head(a) \o Concat(Tail(a))

ImageTexts == {Concat(q) : q \in SeqsUpTo(FragmentPool, MaxFragments)}

\* error messages of the file system
EACCES == <<"E", "A", "C", "C", "E", "S">>
EBUSY == <<"E", "B", "U", "S", "Y">>
EIO == <<"E", "I", "O">>

\* what the environment answers to one copyImageToHugo call: does mkdirSync
\* throw, the name of the file findImageFile returns (<<>> for null), does
\* copyFileSync throw
Copied(name) == [mkdir |-> <<>>, found |-> name, copy |-> <<>>]
NotFound == [mkdir |-> <<>>, found |-> <<>>, copy |-> <<>>]
MkdirThrows == [mkdir |-> EACCES, found |-> <<>>, copy |-> <<>>]
CopyThrows == [mkdir |-> <<>>, found |-> ImageA, copy |-> EBUSY]

Answers == {Copied(ImageA), Copied(ImageBC), NotFound, MkdirThrows, CopyThrows}

Failed(answer) == answer.mkdir # <<>> \/ answer.found = <<>> \/ answer.copy # <<>>

NoteName == <<"n">> \o MdExtension

InitImages ==
    /\ filteredHeaders = <<>>
    /\ tags = <<>>
    /\ IdleFilter
    /\ fileName = NoteName
    /\ content \in ImageTexts
    /\ date = <<>>
    /\ frontMatter = <<>>
    /\ hugoContent = <<>>
    /\ converted = FALSE
    /\ matches = MatchAll(content, 1)
    /\ io \in [1..Len(matches) -> Answers]
    \* the vault does not change during one call: findImageFile returns the
    \* same file for the same name
    /\ \A a, b \in 1..Len(matches) :
          matches[a] = matches[b] => io[a].found = io[b].found
    /\ m = 0
    /\ resultContent = content
    /\ imageCount = 0
    /\ errors = <<>>
    /\ hugoFiles = {}
    /\ IdleBatch
    /\ IdleResolve

\* fs.copyFileSync / fs.writeFileSync: the file at `path` now holds `data`
WriteFile(files, path, data) ==
    {h \in files : h.path # path} \cup {[path |-> path, data |-> data]}

RECURSIVE CopyFiles(_, _)
CopyFiles(files, targets) ==
    IF targets = {} THEN files
    ELSE LET t == CHOOSE x \in targets : TRUE
         IN  CopyFiles(WriteFile(files, t, <<>>), targets \ {t})

\* one iteration of the for loop of processImages
ProcessImage ==
    /\ m < Len(matches)
    /\ LET st == ImageStep([resultContent |-> resultContent, imageCount |-> imageCount,
                            errors |-> errors, copied |-> {}],
                           matches[m + 1], fileName, io[m + 1])
       IN  /\ resultContent' = st.resultContent
           /\ imageCount' = st.imageCount
           /\ errors' = st.errors
           /\ hugoFiles' = CopyFiles(hugoFiles, st.copied)
    /\ m' = m + 1
    /\ UNCHANGED <<io, matches>>
    /\ UNCHANGED <<filterVars, convertVars, batchVars>>
    /\ UNCHANGED resolveVars

NextImages == ProcessImage

SpecImages == InitImages /\ [][NextImages]_vars

-----------------------------------------------------------------------------
(* Inputs of syncSelectedToHugo: at most MaxFiles selected files, each with *)
(* its text and the answers of the host while it is synced.                 *)

MaxFiles == 3

Digits == <<"1", "2", "3", "4", "5", "6", "7", "8", "9">>

\* the name of the k-th selected file
BatchName(k) == <<"f", Digits[k]>> \o MdExtension

FileTexts ==
    { [content |-> <<"s">>, io |-> <<>>],
      [content |-> FullMatch(<<"a">>), io |-> <<Copied(ImageA)>>],
      [content |-> FullMatch(<<"a">>), io |-> <<NotFound>>] }

\* vault.read throws, or mkdirSync / writeFileSync of the document throws, or
\* neither
FileAnswers ==
    {[content |-> t.content, io |-> t.io, read |-> a[1], write |-> a[2]] :
        t \in FileTexts, a \in {<<EIO, <<>>>>, <<<<>>, EACCES>>, <<<<>>, <<>>>>}}

Selections ==
    {[k \in 1..Len(q) |->
        [name |-> BatchName(k), content |-> q[k].content, io |-> q[k].io,
         read |-> q[k].read, write |-> q[k].write]] :
        q \in SeqsUpTo(FileAnswers, MaxFiles)}

NoNotice == [kind |-> "none"]

InitBatch ==
    /\ filteredHeaders = <<HeaderP>>
    /\ tags = <<>>
    /\ IdleFilter
    /\ fileName = <<>>
    /\ content = <<>>
    /\ date \in Dates
    /\ frontMatter = <<>>
    /\ hugoContent = <<>>
    /\ converted = FALSE
    /\ IdleImages
    /\ IdleResolve
    /\ selectedFiles \in Selections
    /\ f = 0
    /\ attempts = <<>>
    /\ successCount = 0
    /\ failCount = 0
    /\ totalImageCount = 0
    /\ errorMessages = <<>>
    /\ notice = NoNotice

\* syncSelectedToHugo with no file selected (64-67)
NoFilesSelected ==
    /\ selectedFiles = <<>>
    /\ notice = NoNotice
    /\ notice' = [kind |-> "noFilesSelected"]
    /\ UNCHANGED <<selectedFiles, f, attempts, successCount, failCount, totalImageCount,
                   errorMessages>>
    /\ UNCHANGED <<filterVars, convertVars, imageVars>>
    /\ UNCHANGED resolveVars

\* one iteration of the for loop of syncSelectedToHugo (74-89)
SyncNextFile ==
    /\ f < Len(selectedFiles)
    /\ LET file == selectedFiles[f + 1]
           syncResult == syncFileToHugo(file, date, filteredHeaders)
       IN  /\ attempts' = Append(attempts, file.name)
           /\ IF syncResult.thrown
              THEN /\ failCount' = failCount + 1
                   /\ errorMessages' =
                          Append(errorMessages, file.name \o <<":", " ">> \o syncResult.message)
                   /\ hugoFiles' = CopyFiles(hugoFiles, syncResult.copied)
                   /\ f' = AfterFailure(f, Len(selectedFiles))
                   /\ UNCHANGED <<successCount, totalImageCount>>
              ELSE /\ successCount' = successCount + 1
                   /\ totalImageCount' = totalImageCount + syncResult.imageCount
                   /\ errorMessages' =
                          errorMessages \o ImageErrorMessages(file.name, syncResult.imageErrors)
                   /\ hugoFiles' = WriteFile(CopyFiles(hugoFiles, syncResult.copied),
                                             syncResult.written.path, syncResult.written.data)
                   /\ f' = f + 1
                   /\ UNCHANGED failCount
    /\ UNCHANGED <<selectedFiles, notice>>
    /\ UNCHANGED <<io, matches, m, resultContent, imageCount, errors>>
    /\ UNCHANGED <<filterVars, convertVars>>
    /\ UNCHANGED resolveVars

\* the result Notice after the loop (91-107)
ShowResult ==
    /\ selectedFiles # <<>>
    /\ f = Len(selectedFiles)
    /\ notice = NoNotice
    /\ notice' = [kind |-> "syncResult",
                  total |-> Len(selectedFiles),
                  success |-> successCount,
                  failed |-> failCount,
                  images |-> IF totalImageCount > 0 THEN totalImageCount ELSE 0,
                  errorList |-> IF failCount > 0 \/ Len(errorMessages) > 0
                                THEN errorMessages ELSE <<>>]
    /\ UNCHANGED <<selectedFiles, f, attempts, successCount, failCount, totalImageCount,
                   errorMessages>>
    /\ UNCHANGED <<filterVars, convertVars, imageVars>>
    /\ UNCHANGED resolveVars

NextBatch == NoFilesSelected \/ SyncNextFile \/ ShowResult

SpecBatch == InitBatch /\ [][NextBatch]_vars

-----------------------------------------------------------------------------
(* Claims about syncSelectedToHugo (SpecBatch)                              *)

\* the sync of this file throws: the read, or the write of the document
Throws(file) == file.read # <<>> \/ file.write # <<>>

\* C5: every selected document is attempted exactly once, in selection order,
\* whatever failed before it; successCount + failCount is the number of
\* documents handled, which is the number selected when the loop ends, and
\* failCount is the number of documents whose sync threw.
C5_EveryFileAttemptedOnce ==
    /\ f <= Len(selectedFiles)
    /\ attempts = [k \in 1..f |-> selectedFiles[k].name]
    /\ successCount + failCount = f
    /\ failCount = Cardinality({k \in 1..f : Throws(selectedFiles[k])})
    /\ notice.kind = "syncResult"
          => /\ f = Len(selectedFiles)
             /\ notice.total = Len(selectedFiles)
             /\ notice.success = successCount
             /\ notice.failed = failCount

\* a batch whose first document fails and whose second succeeds has ended
C5_Witness ==
    /\ notice.kind = "syncResult"
    /\ Len(selectedFiles) >= 2
    /\ Throws(selectedFiles[1])
    /\ ~Throws(selectedFiles[2])
    /\ successCount >= 1

\* C6: every image error recorded while a document of the batch was processed
\* is in the error list of the batch's result notice, whether or not the write
\* of that document then succeeded.
C6_ImageErrorsInSummary ==
    notice.kind = "syncResult"
        => \A k \in 1..Len(selectedFiles) :
              selectedFiles[k].read = <<>>
                  => LET file == selectedFiles[k]
                         recorded == ImageErrorMessages(
                             file.name, processImages(file.content, file.name, file.io).errors)
                     IN  \A e \in 1..Len(recorded) :
                             ArrayIncludes(notice.errorList, recorded[e])

-----------------------------------------------------------------------------
(* Claims about processImages (SpecImages)                                  *)

ImagesDone == m = Len(matches)

\* the text with its n-th, n+1-th, ... embed (from position k on) rewritten
\* in place: an embed whose copy failed stays as it is, one whose copy
\* succeeded becomes its link
RECURSIVE RewrittenInPlace(_, _, _)
RewrittenInPlace(s, k, n) ==
    IF k > Len(s) THEN <<>>
    ELSE IF EmbedAt(s, k)
    THEN LET imageName == SubSeq(s, k + 3, NameEnd(s, k + 3))
             r == copyImageToHugo(imageName, fileName, io[n])
         IN  (IF Failed(io[n]) THEN FullMatch(imageName) ELSE ImageLink(imageName, r.path))
                \o RewrittenInPlace(s, NameEnd(s, k + 3) + 3, n + 1)
    ELSE <<s[k]>> \o RewrittenInPlace(s, k + 1, n)

\* C7: when processImages ends, every embed whose resolution or copy failed
\* stands unchanged at its place in the output, each such embed has added one
\* entry to the error list and none to imageCount, the other embeds are
\* rewritten, and imageCount plus the number of errors is the number of embeds.
C7_FailedEmbedsStay ==
    ImagesDone
        => /\ resultContent = RewrittenInPlace(content, 1, 1)
           /\ Len(errors) = Cardinality({k \in 1..Len(io) : Failed(io[k])})
           /\ imageCount + Len(errors) = Len(matches)

-----------------------------------------------------------------------------
(* findImageFile, findPastedImage, generateSearchPaths                      *)

UpperCase ==
    <<"A", "B", "C", "D", "E", "F", "G", "H", "I", "J", "K", "L", "M", "N", "O",
      "P", "Q", "R", "S", "T", "U", "V", "W", "X", "Y", "Z">>

LowerCase ==
    <<"a", "b", "c", "d", "e", "f", "g", "h", "i", "j", "k", "l", "m", "n", "o",
      "p", "q", "r", "s", "t", "u", "v", "w", "x", "y", "z">>

\* the lower-case letter of every upper-case letter
LowerOf ==
    [c \in {UpperCase[u] : u \in 1..Len(UpperCase)} |->
        LowerCase[CHOOSE u \in 1..Len(UpperCase) : UpperCase[u] = c]]

\* String.prototype.toLowerCase on ASCII
ToLowerCase(s) ==
    [k \in 1..Len(s) |-> IF s[k] \in DOMAIN LowerOf THEN LowerOf[s[k]] ELSE s[k]]

\* s.lastIndexOf(c) for one character: 0-based, -1 when there is none
RECURSIVE LastIndexOf(_, _)
LastIndexOf(s, c) ==
    IF s = <<>> THEN -1
    ELSE IF s[Len(s)] = c THEN Len(s) - 1
    ELSE LastIndexOf(SubSeq(s, 1, Len(s) - 1), c)

\* s.replace(/\s+/g, '')
StripWhiteSpace(s) == SelectSeq(s, LAMBDA c : c \notin WhiteSpace)

\* const imageExtensions (487)
imageExtensions ==
    <<<<".", "j", "p", "g">>, <<".", "j", "p", "e", "g">>, <<".", "p", "n", "g">>,
      <<".", "g", "i", "f">>, <<".", "b", "m", "p">>, <<".", "s", "v", "g">>,
      <<".", "w", "e", "b", "p">>>>

\* DEFAULT_SETTINGS.imageSearchPaths (23)
imageSearchPaths ==
    <<<<"a", "s", "s", "e", "t", "s">>, <<"i", "m", "a", "g", "e", "s">>, <<"a", "t", "t", "a", "c", "h", "m", "e", "n", "t", "s">>,
      <<"m", "e", "d", "i", "a">>, <<"f", "i", "l", "e", "s">>>>

\* The TFile the vault holds for a file at `path`.  The fields are those of
\* the Obsidian API, which the source reads (511, 528-534, 577): name is the
\* last segment of the path, extension is the text after the last dot of the
\* name WITHOUT the dot ("png" for "a.png"), basename is the name without
\* the dot and the extension.
TFile(path) ==
    LET slash == LastIndexOf(path, "/")
        name == SubstringFrom(path, slash + 1)
        dot == LastIndexOf(name, ".")
    IN  [path |-> path,
         name |-> name,
         basename |-> IF dot > 0 THEN Substring(name, 0, dot) ELSE name,
         extension |-> IF dot > 0 THEN SubstringFrom(name, dot + 1) ELSE <<>>]

\* the null of `TFile | null`
NoFile == [path |-> <<>>, name |-> <<>>, basename |-> <<>>, extension |-> <<>>]

\* the mutant of HasImageExtension: the extension is compared with its dot
HasDottedImageExtension(file) ==
    ArrayIncludes(imageExtensions, <<".">> \o ToLowerCase(file.extension))

\* imageExtensions.includes(file.extension.toLowerCase()) (511, 534, 577)
HasImageExtension(file) == ArrayIncludes(imageExtensions, ToLowerCase(file.extension))

\* generateSearchPaths(searchName, baseName) (592-612)
RECURSIVE SearchPathsOf(_, _, _)
SearchPathsOf(dirs, searchName, baseName) ==
    IF dirs = <<>> THEN <<>>
    ELSE LET dir == Head(dirs) \o <<"/">>
         IN  <<dir \o searchName,
               dir \o baseName \o <<".", "j", "p", "g">>,
               dir \o baseName \o <<".", "p", "n", "g">>,
               dir \o baseName \o <<".", "j", "p", "e", "g">>,
               dir \o baseName \o <<".", "g", "i", "f">>,
               dir \o baseName \o <<".", "s", "v", "g">>,
               dir \o baseName \o <<".", "w", "e", "b", "p">>>>
             \o SearchPathsOf(Tail(dirs), searchName, baseName)

generateSearchPaths(searchName, baseName) ==
    SearchPathsOf(imageSearchPaths, searchName, baseName) \o <<searchName>>

\* this.app.vault.getAbstractFileByPath(path): the file of the vault at that
\* path, or null
getAbstractFileByPath(files, path) ==
    IF \E k \in 1..Len(files) : files[k].path = path
    THEN files[CHOOSE k \in 1..Len(files) : files[k].path = path]
    ELSE NoFile

\* the first element of the array whose test passed (a for ... of loop that
\* returns at the first hit), or null; hits[k] is the test's result on files[k]
FirstFile(files, hits) ==
    IF \E k \in 1..Len(files) : hits[k]
    THEN files[CHOOSE k \in 1..Len(files) :
                   /\ hits[k]
                   /\ \A j \in 1..(k - 1) : ~hits[j]]
    ELSE NoFile

Digits09 == {"0", "1", "2", "3", "4", "5", "6", "7", "8", "9"}

PastedPrefix == <<"p", "a", "s", "t", "e", "d", " ", "i", "m", "a", "g", "e", " ">>

PastedImageWords == <<"P", "a", "s", "t", "e", "d", " ", "i", "m", "a", "g", "e">>

\* the alternatives of (png|jpg|jpeg|gif|bmp|svg|webp)
PastedSuffixes ==
    {<<"p", "n", "g">>, <<"j", "p", "g">>, <<"j", "p", "e", "g">>, <<"g", "i", "f">>,
     <<"b", "m", "p">>, <<"s", "v", "g">>, <<"w", "e", "b", "p">>}

\* does /Pasted image \d{14}\.(png|jpg|jpeg|gif|bmp|svg|webp)/i match at
\* position k (1-based) of s
PastedAt(s, k) ==
    LET low == ToLowerCase(s)
        p == Len(PastedPrefix)
    IN  /\ k + p + 14 <= Len(s)
        /\ SubSeq(low, k, k + p - 1) = PastedPrefix
        /\ \A d \in (k + p)..(k + p + 13) : s[d] \in Digits09
        /\ s[k + p + 14] = "."
        /\ \E x \in PastedSuffixes :
              /\ k + p + 14 + Len(x) <= Len(s)
              /\ SubSeq(low, k + p + 15, k + p + 14 + Len(x)) = x

\* pastedImagePattern.test(s) (560): the pattern is not anchored
pastedImagePattern(s) == \E k \in 1..Len(s) : PastedAt(s, k)

\* the stages of findImageFile
StagePath == "configured path"
StageGlobal == "global scan"
StagePastedExact == "pasted image, exact name"
StagePastedAny == "pasted image, any"
StageNone == "not found"

\* findPastedImage(imageName, allFiles, imageExtensions) (555-589)
findPastedImage(imageName, allFiles) ==
    LET Exact(file) == pastedImagePattern(file.name) /\ file.name = imageName
        AnyPasted(file) == Includes(file.name, PastedImageWords) /\ HasImageExtension(file)
        anyPasted == FirstFile(allFiles, [k \in 1..Len(allFiles) |-> AnyPasted(allFiles[k])])
        exact == IF pastedImagePattern(imageName) THEN FirstFile(allFiles, [k \in 1..Len(allFiles) |-> Exact(allFiles[k])]) ELSE NoFile
    IN  IF exact # NoFile THEN [stage |-> StagePastedExact, file |-> exact]
        ELSE IF anyPasted # NoFile
        THEN [stage |-> StagePastedAny, file |-> anyPasted]
        ELSE [stage |-> StageNone, file |-> NoFile]

\* the first search path that names an image file of the vault (507-516)
RECURSIVE ProbePaths(_, _)
ProbePaths(searchPaths, allFiles) ==
    IF searchPaths = <<>> THEN NoFile
    ELSE LET file == getAbstractFileByPath(allFiles, Head(searchPaths))
         IN  IF file # NoFile /\ HasImageExtension(file) THEN file
             ELSE ProbePaths(Tail(searchPaths), allFiles)

\* findImageFile(imageName) over the files of the vault (486-552): the stage
\* that returned and the file returned
findImageFile(imageName, allFiles) ==
    LET hasExtension == \E e \in 1..Len(imageExtensions) :
                            EndsWith(ToLowerCase(imageName), imageExtensions[e])
        searchName == IF hasExtension THEN imageName ELSE imageName \o <<".", "j", "p", "g">>
        baseName == IF hasExtension
                    THEN Substring(imageName, 0, LastIndexOf(imageName, "."))
                    ELSE imageName
        probed == ProbePaths(generateSearchPaths(searchName, baseName), allFiles)
        Global(file) ==
            LET exactMatch == file.name = searchName \/ file.name = imageName
                baseNameMatch == file.basename = baseName
                containsMatch == /\ Includes(file.name, baseName)
                                 /\ Includes(file.name, StripWhiteSpace(imageName))
                fuzzyMatch == \/ Includes(ToLowerCase(file.name), ToLowerCase(baseName))
                              \/ Includes(ToLowerCase(file.name),
                                          StripWhiteSpace(ToLowerCase(imageName)))
            IN  /\ exactMatch \/ baseNameMatch \/ containsMatch \/ fuzzyMatch
                /\ HasImageExtension(file)
        scanned == FirstFile(allFiles, [k \in 1..Len(allFiles) |-> Global(allFiles[k])])
    IN  IF probed # NoFile THEN [stage |-> StagePath, file |-> probed]
        ELSE IF scanned # NoFile THEN [stage |-> StageGlobal, file |-> scanned]
        ELSE findPastedImage(imageName, allFiles)

-----------------------------------------------------------------------------
(* Inputs of the resolver: a note of at most MaxEmbeds embeds whose tokens  *)
(* come from TokenPool, a vault of at most MaxVault files of VaultPool in   *)
(* some enumeration order, and what the file system answers per embed.      *)

MaxEmbeds == 2
MaxVault == 2

Pasted0 == <<"P", "a", "s", "t", "e", "d", " ", "i", "m", "a", "g", "e", " ", "2", "0", "2", "4", "0", "1", "0", "1", "1", "2", "0", "0", "0", "0", ".", "p", "n", "g">>
Pasted1 == <<"P", "a", "s", "t", "e", "d", " ", "i", "m", "a", "g", "e", " ", "2", "0", "2", "4", "0", "1", "0", "1", "1", "2", "0", "0", "0", "1", ".", "p", "n", "g">>
Pasted9 == <<"P", "a", "s", "t", "e", "d", " ", "i", "m", "a", "g", "e", " ", "2", "0", "2", "4", "0", "1", "0", "1", "1", "2", "0", "0", "0", "9", ".", "p", "n", "g">>

TokenB == <<"b">>

TokenPool ==
    { Pasted0,                \* a pasted image the vault may hold
      Pasted9,                \* a pasted image the vault never holds
      TokenB }                \* a token without extension

VaultPool ==
    { TFile(Pasted0),
      TFile(<<"a", "s", "s", "e", "t", "s", "/">> \o Pasted1),
      TFile(<<"a", "s", "s", "e", "t", "s", "/", "b", ".", "j", "p", "g">>) }

\* the sequences without repetition of at most n elements of S
DistinctSeqsUpTo(S, n) ==
    {q \in SeqsUpTo(S, n) : \A a, b \in 1..Len(q) : a # b => q[a] # q[b]}

Vaults == DistinctSeqsUpTo(VaultPool, MaxVault)

ResolveTexts ==
    {Concat([k \in 1..Len(q) |-> FullMatch(q[k])]) : q \in SeqsUpTo(TokenPool, MaxEmbeds)}

\* what the file system answers to one copyImageToHugo call; `found` is
\* filled in from findImageFile when the call is made
FsOk == [mkdir |-> <<>>, found |-> <<>>, copy |-> <<>>]
FsMkdirThrows == [mkdir |-> EACCES, found |-> <<>>, copy |-> <<>>]
FsCopyThrows == [mkdir |-> <<>>, found |-> <<>>, copy |-> EBUSY]

FsAnswers == {FsOk, FsMkdirThrows, FsCopyThrows}

InitResolve ==
    /\ filteredHeaders = <<>>
    /\ tags = <<>>
    /\ IdleFilter
    /\ fileName = NoteName
    /\ content \in ResolveTexts
    /\ date = <<>>
    /\ frontMatter = <<>>
    /\ hugoContent = <<>>
    /\ converted = FALSE
    /\ matches = MatchAll(content, 1)
    /\ io \in [1..Len(matches) -> FsAnswers]
    /\ m = 0
    /\ resultContent = content
    /\ imageCount = 0
    /\ errors = <<>>
    /\ hugoFiles = {}
    /\ IdleBatch
    /\ vault \in Vaults
    /\ lookups = <<>>

\* the lookup of one copyImageToHugo call (445-466): findImageFile is called
\* after the directory was made
NotCalled == [stage |-> "not called", file |-> NoFile]

LookUp(imageName, allFiles, answer) ==
    IF answer.mkdir # <<>> THEN NotCalled ELSE findImageFile(imageName, allFiles)

\* one iteration of the for loop of processImages (424-439), findImageFile
\* included
RelocateImage ==
    /\ m < Len(matches)
    /\ LET lookup == LookUp(matches[m + 1], vault, io[m + 1])
           answer == [io[m + 1] EXCEPT !.found = lookup.file.name]
           st == ImageStep([resultContent |-> resultContent, imageCount |-> imageCount,
                            errors |-> errors, copied |-> {}],
                           matches[m + 1], fileName, answer)
       IN  /\ resultContent' = st.resultContent
           /\ imageCount' = st.imageCount
           /\ errors' = st.errors
           /\ hugoFiles' = CopyFiles(hugoFiles, st.copied)
           /\ lookups' = Append(lookups, lookup)
    /\ m' = m + 1
    /\ UNCHANGED <<io, matches, vault>>
    /\ UNCHANGED <<filterVars, convertVars, batchVars>>

NextResolve == RelocateImage

SpecResolve == InitResolve /\ [][NextResolve]_vars

-----------------------------------------------------------------------------
(* Claims about the resolver and the relocation (SpecResolve)               *)

ResolveDone == m = Len(matches)

\* the n-th embed resolved and was copied
Relocated(n) ==
    /\ io[n].mkdir = <<>>
    /\ lookups[n].file # NoFile
    /\ io[n].copy = <<>>

\* `![T](../../<imageSubPath>/D/<F>)` with F the percent-encoding of T
TokenLink(T, D) ==
    <<"!", "[">> \o T \o <<"]", "(", ".", ".", "/", ".", ".", "/">> \o imageSubPath
        \o <<"/">> \o D \o <<"/">> \o encodeURIComponent(T) \o <<")">>

\* the text with its n-th, n+1-th, ... embed (from position k on) replaced
\* by its TokenLink when it was relocated and left as it is otherwise
RECURSIVE WithTokenLinks(_, _, _)
WithTokenLinks(s, k, n) ==
    IF k > Len(s) THEN <<>>
    ELSE IF EmbedAt(s, k)
    THEN LET T == SubSeq(s, k + 3, NameEnd(s, k + 3))
         IN  (IF Relocated(n) THEN TokenLink(T, <<"n">>) ELSE FullMatch(T))
                \o WithTokenLinks(s, NameEnd(s, k + 3) + 3, n + 1)
    ELSE <<s[k]>> \o WithTokenLinks(s, k + 1, n)

\* C11: when processImages ends, every embed ![[T]] of the note n.md whose
\* asset resolved and was copied stands replaced by ![T](../../images/n/F),
\* F the percent-encoding of T, and the other embeds stand as they were.
C11_EmbedReplacedByTokenLink ==
    ResolveDone => resultContent = WithTokenLinks(content, 1, 1)

\* the token matches the pattern `Pasted image` + 14 digits + recognized
\* extension
IsPastedToken(T) == pastedImagePattern(T)

-----------------------------------------------------------------------------
(* Claims about the body of a document with front matter (SpecConvert)      *)

\* the text that follows the closing delimiter of the existing block
AfterClosingDelimiter ==
    SubstringFrom(content, IndexOf(content, Delimiter, 3) + Len(Delimiter))

\* C13: for a document with existing front matter the output is the merged
\* block, which ends with its one closing delimiter, a blank line, and the
\* processed and trimmed text that follows the closing delimiter of the
\* original block; that delimiter is not carried into the body.
C13_BodyFollowsClosingDelimiter ==
    (converted /\ hasExistingYaml(content))
        => /\ EmittedLines[1] = Delimiter
           /\ EmittedLines[Len(EmittedLines)] = Delimiter
           /\ hugoContent =
                 frontMatter \o <<"\n", "\n">>
                    \o Trim(Join(processContentWithTagsAndFiltering(
                                     Trim(AfterClosingDelimiter), <<>>,
                                     filteredHeaders).processedContent, "\n"))

-----------------------------------------------------------------------------
(* Claims about the end of a tag section (SpecFilter)                       *)

\* the line the loop is about to handle closes an open tag section
ClosesTagSection ==
    /\ pass = 1
    /\ i < Len(lines)
    /\ tagSection
    /\ Trim(lines[i + 1]) # TagsOpener
    /\ ~StartsWith(Trim(lines[i + 1]), <<"-">>)

\* the line the loop is about to handle is a blacklisted header
IsBlacklistedHeader ==
    /\ IsHeaderLine(lines[i + 1])
    /\ ArrayIncludes(filteredHeaders, HeaderContent(Trim(lines[i + 1])))

\* C14: the first line after a tags: opener that is not a `- item` line closes
\* the tag section and is handled as an ordinary body line: when skipping is
\* false after it, it is appended to the output (without its inline #tokens,
\* which are added to the tags), so it is not lost.
C14_ClosingLineIsEmitted ==
    [][(ClosesTagSection /\ ~IsBlacklistedHeader /\ ~skipContent')
        => LET line == lines[i + 1]
               found == StandaloneTags(Trim(line), 1)
               cleanedLine == Trim(RemoveTags(line, 1))
           IN  /\ ~tagSection'
               /\ processedContent' =
                     IF found = <<>> THEN Append(processedContent, line)
                     ELSE IF cleanedLine # <<>> THEN Append(processedContent, cleanedLine)
                     ELSE processedContent
               /\ \A k \in 1..Len(found) :
                     ~symbolOnlyRegex(Tail(found[k])) => ArrayIncludes(tags', Tail(found[k]))
       ]_vars

====
